---- MODULE Spec2Model ----
(***************************************************************************)
(* Model of src/src/Calibre.ts: the Calibre class (constructor, exec, run, *)
(* ebookConvert).  Strings are sequences of one-character strings, so that *)
(* escaping, quoting and joining are computed character by character.      *)
(***************************************************************************)
EXTENDS Integers, Naturals, Sequences, FiniteSets, TLC

(* ------------------------------ bounds --------------------------------- *)

\* number of calls that may be in flight on one instance
MaxCalls == 2
\* longest argument string of the single-argument input family
MaxStrLen == 3
\* longest positional argument sequence
MaxArgs == 2
\* largest number of entries of an options mapping
MaxOpts == 2
\* longest sequence given as an option value
MaxArr == 2

(* ------------------------------ strings -------------------------------- *)

DQ == "\""
BS == "\\"
SP == " "

RECURSIVE Join(_, _)
\* Array.prototype.join: the parts with sep between each adjacent pair
Join(parts, sep) ==
  IF parts = <<>> THEN <<>>
  ELSE IF Len(parts) = 1 THEN parts[1]
  ELSE parts[1] \o sep \o Join(Tail(parts), sep)

\* String.prototype.startsWith
StartsWith(s, p) == Len(s) >= Len(p) /\ SubSeq(s, 1, Len(p)) = p

\* the strings over alphabet of length at most n
StrsUpTo(alphabet, n) == UNION {[1..k -> alphabet] : k \in 0..n}

\* the sequences over S of length at most n
SeqsUpTo(S, n) == UNION {[1..k -> S] : k \in 0..n}

(* ------------------------------- values -------------------------------- *)

\* a JavaScript value given as an argument or an option value:
\* null, a string, or an array of nulls and strings
Null == [t |-> "null", s |-> <<>>, elems |-> <<>>]
Str(x) == [t |-> "str", s |-> x, elems |-> <<>>]
Arr(es) == [t |-> "arr", s |-> <<>>, elems |-> es]

\* String(value)
ToText(v) == IF v.t = "null" THEN <<"n", "u", "l", "l">> ELSE v.s

RECURSIVE EscapeText(_)
\* every double quote and every backslash gets a backslash in front
EscapeText(s) ==
  IF s = <<>> THEN <<>>
  ELSE (IF Head(s) \in {DQ, BS} THEN <<BS, Head(s)>> ELSE <<Head(s)>>)
       \o EscapeText(Tail(s))

\* lib/escape: the value as text, escaped
escape(v) == EscapeText(ToText(v))

\* the upper-case letters of the option keys, with their lower-case forms
Lower == ("P" :> "p") @@ ("A" :> "a") @@ ("S" :> "s")

IsUpper(c) == c \in DOMAIN Lower
IsLowerOrDigit(c) == c \notin DOMAIN Lower /\ c \notin {"-", SP, DQ, BS}

RECURSIVE KebabFrom(_, _)
KebabFrom(s, prev) ==
  IF s = <<>> THEN <<>>
  ELSE (IF IsUpper(Head(s))
        THEN (IF prev # "" /\ IsLowerOrDigit(prev) THEN <<"-">> ELSE <<>>)
             \o <<Lower[Head(s)]>>
        ELSE <<Head(s)>>)
       \o KebabFrom(Tail(s), Head(s))

\* lib/camel-to-kebab: libraryPath becomes library-path
camelToKebab(key) == KebabFrom(key, "")

(* --------------------------- ordered mappings -------------------------- *)

\* a JavaScript object with string keys: its entries in insertion order
HasKey(m, k) == \E i \in 1..Len(m) : m[i].key = k

RECURSIVE Assign(_, _)
\* Object.assign(target, source): a key of source the target has keeps its
\* place and takes the source's value; a new key is appended
Assign(target, source) ==
  IF source = <<>> THEN target
  ELSE LET e == Head(source)
           t == IF HasKey(target, e.key)
                THEN [i \in 1..Len(target) |->
                        IF target[i].key = e.key THEN e ELSE target[i]]
                ELSE Append(target, e)
       IN Assign(t, Tail(source))

(* ---------------------------- program text ----------------------------- *)

calibredb == <<"c", "a", "l", "i", "b", "r", "e", "d", "b">>
calibredbAdd == calibredb \o <<SP, "a", "d", "d">>
ebookConvertCmd == <<"e", "b", "o", "o", "k", "-", "c", "o", "n", "v", "e", "r", "t">>
libraryPath == <<"l", "i", "b", "r", "a", "r", "y", "P", "a", "t", "h">>
LogPrefix == <<"~", "~", "n", "o", "d", "e", "-", "c", "a", "l", "i", "b", "r", "e", ":">>
DefaultExecOptions == <<[key |-> "maxBuffer", value |-> 2000 * 1024]>>

(* ------------------------------- state --------------------------------- *)

VARIABLES
  library,      \* this.library
  log,          \* this.log
  execOptions,  \* this.execOptions
  calls,        \* the calls made on the instance, with their promises
  hostLog       \* what the process host and the console saw, in order

vars == <<library, log, execOptions, calls, hostLog>>

config == <<library, log, execOptions>>

Calls == 1..MaxCalls

NoError == [t |-> "none", v |-> <<>>]
HostError == [t |-> "error", v |-> <<"E">>]
Text(s) == [t |-> "text", v |-> s]

NoReport == [err |-> NoError, stdout |-> <<>>, stderr |-> <<>>]
Unsettled == [state |-> "pending", value |-> NoError]
NoPromise == [state |-> "none", value |-> NoError]

\* a slot no call has been made in
NoCall ==
  [kind |-> "none", command |-> <<>>, args |-> <<>>, given |-> <<>>,
   options |-> <<>>, execString |-> <<>>, input |-> <<>>, format |-> <<>>,
   output |-> <<>>, proc |-> "none", report |-> NoReport,
   promise |-> NoPromise, outer |-> NoPromise]

(* ------------------------------ exec ----------------------------------- *)

\* Settle with the standard error looked at before the error of the host
Settle_StderrFirst(err, stdout, stderr) ==
  IF stderr # <<>> THEN [state |-> "rejected", value |-> Text(stderr)]
  ELSE IF err.t # "none" THEN [state |-> "rejected", value |-> err]
  ELSE [state |-> "resolved", value |-> Text(stdout)]

\* the callback exec gives child_process.exec
Settle(err, stdout, stderr) ==
  IF err.t # "none" THEN [state |-> "rejected", value |-> err]
  ELSE IF stderr # <<>> THEN [state |-> "rejected", value |-> Text(stderr)]
  ELSE [state |-> "resolved", value |-> Text(stdout)]

\* Object.assign({}, this.execOptions, options): the options of one spawn
MergedExecOptions(inst, perCall) == Assign(Assign(<<>>, inst), perCall)

\* ExecOptionsAfterMerge with this.execOptions itself as the target of the merge
ExecOptionsAfterMerge_Aliased(inst, perCall) == Assign(inst, perCall)

\* this.execOptions after that merge: its target is a fresh object
ExecOptionsAfterMerge(inst, perCall) == inst

SpawnEvent(i, command, perCall) ==
  [ev |-> "spawn", id |-> i, text |-> command,
   options |-> MergedExecOptions(execOptions, perCall)]

ConsoleEvent(line) == [ev |-> "console", id |-> 0, text |-> line, options |-> <<>>]

(* ------------------------------- run ----------------------------------- *)

\* a second parameter of run: an array of arguments or an options object
ArgList(items) == [isArray |-> TRUE, items |-> items]
ArgObject(entries) == [isArray |-> FALSE, items |-> entries]

\* args and options once an options object given second has been moved
RunArgs(a) == IF a.isArray THEN a.items ELSE <<>>
RunGiven(a, o) == IF a.isArray THEN o ELSE a.items

\* RunOptions with the default assigned over the options of the caller
RunOptions_DefaultWins(command, options, lib) ==
  IF StartsWith(command, calibredb)
  THEN Assign(options, <<[key |-> libraryPath, value |-> Str(lib)]>>)
  ELSE options

\* the options rendered: for calibredb the default library path comes first
RunOptions(command, options, lib) ==
  IF StartsWith(command, calibredb)
  THEN Assign(<<[key |-> libraryPath, value |-> Str(lib)]>>, options)
  ELSE options

\* QuoteArg without the double quotes
QuoteArg_Unquoted(arg) == escape(arg)

\* an argument, escaped and wrapped in double quotes
QuoteArg(arg) == <<DQ>> \o escape(arg) \o <<DQ>>

\* OptionFlag with two dashes whatever the length of the key
OptionFlag_AlwaysLong(key) == <<"-", "-">> \o key

\* s becomes -s, search becomes --search
OptionFlag(key) == IF Len(key) = 1 THEN <<"-">> \o key ELSE <<"-", "-">> \o key

\* OptionToken with the empty string, not null, as the mark of no value
OptionToken_EmptyIsBare(key, value) ==
  OptionFlag(key)
    \o (IF ToText(value) # <<>> THEN <<SP, DQ>> \o escape(value) \o <<DQ>> ELSE <<>>)

\* one flag, with its value unless the value is null
OptionToken(key, value) ==
  OptionFlag(key)
    \o (IF value.t # "null" THEN <<SP, DQ>> \o escape(value) \o <<DQ>> ELSE <<>>)

\* one entry of options: the flag once per value
RenderOption(entry) ==
  LET key == camelToKebab(entry.key)
      values == IF entry.value.t = "arr" THEN entry.value.elems ELSE <<entry.value>>
  IN Join([j \in 1..Len(values) |-> OptionToken(key, values[j])], <<SP>>)

\* execString
ExecString(command, args, options) ==
  Join(<<command>>
         \o [j \in 1..Len(args) |-> QuoteArg(args[j])]
         \o [j \in 1..Len(options) |-> RenderOption(options[j])],
       <<SP>>)

\* what console.log prints for its two arguments
LogLine(execString) == LogPrefix \o <<SP>> \o execString

\* the events of one run: the log line when logging is on, then the spawn
RunEvents(i, execString) ==
  (IF log THEN <<ConsoleEvent(LogLine(execString))>> ELSE <<>>)
    \o <<SpawnEvent(i, execString, <<>>)>>

\* the call record of run(command, a, o), its exec started
RunRecord(kind, command, a, o) ==
  LET args == RunArgs(a)
      given == RunGiven(a, o)
      options == RunOptions(command, given, library)
  IN [NoCall EXCEPT !.kind = kind, !.command = command, !.args = args,
                    !.given = given, !.options = options,
                    !.execString = ExecString(command, args, options),
                    !.proc = "running", !.promise = Unsettled]

(* ------------------------------ actions -------------------------------- *)

\* slot i holds the i-th call made on the instance
IsNextCall(i) ==
  /\ calls[i].kind = "none"
  /\ \A j \in 1..(i - 1) : calls[j].kind # "none"

\* exec(command, options), called by the user of the instance
ExecCall(i, command, perCall) ==
  /\ IsNextCall(i)
  /\ calls' = [calls EXCEPT ![i] =
                 [NoCall EXCEPT !.kind = "exec", !.command = command,
                                !.execString = command, !.proc = "running",
                                !.promise = Unsettled]]
  /\ hostLog' = Append(hostLog, SpawnEvent(i, command, perCall))
  /\ execOptions' = ExecOptionsAfterMerge(execOptions, perCall)
  /\ UNCHANGED <<library, log>>

\* run(command, a, o)
RunCall(i, command, a, o) ==
  /\ IsNextCall(i)
  /\ LET rec == RunRecord("run", command, a, o)
     IN /\ calls' = [calls EXCEPT ![i] = rec]
        /\ hostLog' = hostLog \o RunEvents(i, rec.execString)
  /\ execOptions' = ExecOptionsAfterMerge(execOptions, <<>>)
  /\ UNCHANGED <<library, log>>

\* input.format
EbookOutput(input, format) == input \o <<".">> \o format

\* ebookConvert(input, format, options), up to its await
EbookConvertCall(i, input, format, o) ==
  /\ IsNextCall(i)
  /\ LET output == EbookOutput(input, format)
         rec == RunRecord("ebookConvert", ebookConvertCmd,
                          ArgList(<<Str(input), Str(output)>>), o)
     IN /\ calls' = [calls EXCEPT ![i] =
                       [rec EXCEPT !.input = input, !.format = format,
                                   !.output = output, !.outer = Unsettled]]
        /\ hostLog' = hostLog \o RunEvents(i, rec.execString)
  /\ execOptions' = ExecOptionsAfterMerge(execOptions, <<>>)
  /\ UNCHANGED <<library, log>>

\* the process of call i ends and the host calls back
HostCallback(i, err, stdout, stderr) ==
  /\ calls[i].proc = "running"
  /\ calls' = [calls EXCEPT ![i].proc = "exited",
                            ![i].report = [err |-> err, stdout |-> stdout,
                                           stderr |-> stderr],
                            ![i].promise = Settle(err, stdout, stderr)]
  /\ UNCHANGED <<library, log, execOptions, hostLog>>

\* EbookSettle handing on what run resolved with
EbookSettle_RunValue(inner, output) == inner

\* what ebookConvert settles with once the promise of run has settled
EbookSettle(inner, output) ==
  IF inner.state = "resolved"
  THEN [state |-> "resolved", value |-> Text(output)]
  ELSE inner

\* ebookConvert resumes after its await
EbookConvertResume(i) ==
  /\ calls[i].kind = "ebookConvert"
  /\ calls[i].promise.state \in {"resolved", "rejected"}
  /\ calls[i].outer.state = "pending"
  /\ calls' = [calls EXCEPT ![i].outer =
                 EbookSettle(calls[i].promise, calls[i].output)]
  /\ UNCHANGED <<library, log, execOptions, hostLog>>

(* ------------------------------- inputs -------------------------------- *)

authors == <<"a", "u", "t", "h", "o", "r", "s">>
ls == <<"l", "s">>
xEpub == <<"x", ".", "e", "p", "u", "b">>
mobi == <<"m", "o", "b", "i">>

Opt(k, v) == [key |-> k, value |-> v]

\* the library paths an instance is constructed with: none, and l\b
Libraries == {<<>>, <<"l", BS, "b">>}
\* the execOptions an instance is constructed with: none, and { timeout: 5 }
GivenExecOptions == {<<>>, <<[key |-> "timeout", value |-> 5]>>}
\* the execution options given to one exec call
PerCallOptions == {<<>>, <<[key |-> "maxBuffer", value |-> 1]>>}

\* what the process host reports when a process ends
Reports ==
  {[err |-> HostError, stdout |-> <<>>, stderr |-> <<>>],
   [err |-> HostError, stdout |-> <<"o">>, stderr |-> <<"w">>],
   [err |-> NoError, stdout |-> <<"o">>, stderr |-> <<"w">>],
   [err |-> NoError, stdout |-> <<"o">>, stderr |-> <<>>],
   [err |-> NoError, stdout |-> <<>>, stderr |-> <<>>]}

RunInput(c, a, o) == [command |-> c, a |-> a, o |-> o]

\* the run calls of the specification of concurrent calls
MainRunInputs ==
  {RunInput(calibredbAdd, ArgList(<<Str(<<"a">>)>>), <<>>),
   RunInput(ebookConvertCmd, ArgObject(<<Opt(<<"s">>, Null)>>), <<>>)}

Chars == {"a", DQ, BS, SP}
Keys == {<<"s">>, libraryPath, authors}

ShortVals == {Null, Str(<<>>), Str(<<"a">>), Str(<<DQ>>), Str(<<SP>>)}
RichVals == {Str(x) : x \in StrsUpTo(Chars, MaxStrLen)}
ArgLists == SeqsUpTo(ShortVals, MaxArgs) \cup {<<v>> : v \in RichVals}

OptScalars == {Null, Str(<<>>), Str(<<"a", DQ>>)}
ElemVals == {Null, Str(<<"a", BS>>)}
ArrVals == {Arr(es) : es \in SeqsUpTo(ElemVals, MaxArr)}
SimpleVals == OptScalars \cup {Arr(<<>>), Arr(<<Null, Str(<<"a", BS>>)>>)}
SimpleEntries == {Opt(k, v) : k \in Keys, v \in SimpleVals}
\* the options objects: at most MaxOpts entries with no key twice, and the
\* objects of one entry whose value is a sequence of at most MaxArr elements
OptionMaps ==
  {m \in SeqsUpTo(SimpleEntries, MaxOpts) :
     \A i, j \in 1..Len(m) : i # j => m[i].key # m[j].key}
    \cup {<<Opt(k, v)>> : k \in Keys, v \in ArrVals}

\* the run calls of the specification of the serializer: rich arguments with
\* few options, and rich options (given second or third) with no arguments
ArgFamily ==
  {RunInput(c, ArgList(a), o) :
     c \in {calibredbAdd, ebookConvertCmd}, a \in ArgLists,
     o \in {<<>>, <<Opt(<<"s">>, Str(<<"a">>))>>}}
OptFamily ==
  {RunInput(c, ArgList(<<>>), m) : c \in {calibredb, ebookConvertCmd}, m \in OptionMaps}
    \cup {RunInput(ebookConvertCmd, ArgObject(m), <<>>) :
            m \in {n \in OptionMaps : Len(n) = 1}}
\* the calls given as examples
bookEpub == <<"b", "o", "o", "k", ".", "e", "p", "u", "b">>
bookMobi == <<"b", "o", "o", "k", ".", "m", "o", "b", "i">>
title == <<"t", "i", "t", "l", "e">>
ExampleInputs ==
  {RunInput(ebookConvertCmd, ArgList(<<Str(bookEpub), Str(bookMobi)>>), <<>>),
   RunInput(ebookConvertCmd, ArgList(<<>>),
            <<Opt(authors, Arr(<<Str(<<"A">>), Str(<<"B">>)>>))>>),
   RunInput(ebookConvertCmd, ArgList(<<>>), <<Opt(<<"s">>, Str(title))>>)}
RunInputs == ArgFamily \cup OptFamily \cup ExampleInputs

\* the run calls of the specification of pairs of calls
PairVals == {Str(<<>>), Str(<<SP>>), Str(<<DQ>>)}
PairOpts ==
  {<<>>, <<Opt(<<"s">>, Str(<<"a">>))>>, <<Opt(<<"s">>, Arr(<<Str(<<"a">>)>>))>>}
PairInputs ==
  {RunInput(ebookConvertCmd, ArgList(a), o) :
     a \in SeqsUpTo(PairVals, MaxArgs), o \in PairOpts}

(* --------------------------- specifications ---------------------------- *)

\* new Calibre(options)
Init ==
  /\ library \in Libraries
  /\ log \in BOOLEAN
  /\ execOptions \in {IF g = <<>> THEN DefaultExecOptions ELSE g : g \in GivenExecOptions}
  /\ calls = [i \in Calls |-> NoCall]
  /\ hostLog = <<>>

DoExec == \E i \in Calls, o \in PerCallOptions : ExecCall(i, ls, o)
DoRun == \E i \in Calls, d \in MainRunInputs : RunCall(i, d.command, d.a, d.o)
DoEbookConvert == \E i \in Calls : EbookConvertCall(i, xEpub, mobi, <<>>)
DoCallback ==
  \E i \in Calls, r \in Reports : HostCallback(i, r.err, r.stdout, r.stderr)
DoResume == \E i \in Calls : EbookConvertResume(i)

Next == DoExec \/ DoRun \/ DoEbookConvert \/ DoCallback \/ DoResume

\* concurrent calls on one instance
Spec == Init /\ [][Next]_vars

\* new Calibre({ library }) for the serializer
InitRun == Init /\ ~log /\ execOptions = DefaultExecOptions

SerializeOne ==
  /\ calls[1].kind = "none"
  /\ \E d \in RunInputs : RunCall(1, d.command, d.a, d.o)

NextRun == SerializeOne

\* one run call, over the inputs of the serializer
SpecRun == InitRun /\ [][NextRun]_vars

SerializePair ==
  \E i \in 1..2 :
    /\ calls[i].kind = "none"
    /\ \E d \in PairInputs : RunCall(i, d.command, d.a, d.o)

NextPair == SerializePair

\* two run calls, over the inputs of pairs
SpecPair == InitRun /\ [][NextPair]_vars

(* ----------------------- reading a command line ------------------------ *)

\* the words of a command line: it is cut at every space outside double
\* quotes; a character after an odd run of backslashes is kept as it is, so
\* that an escaped double quote does not close the quotes
Words(s) ==
  LET n == Len(s)
      escaped == [p \in 1..n |->
                    \E k \in 1..(p - 1) :
                      /\ k % 2 = 1
                      /\ \A j \in 1..k : s[p - j] = BS
                      /\ (p - k - 1 = 0 \/ s[p - k - 1] # BS)]
      mark == [p \in 1..n |-> s[p] = DQ /\ ~escaped[p]]
      inQuotes == [p \in 1..n |->
                     Cardinality({q \in 1..(p - 1) : mark[q]}) % 2 = 1]
      cuts == {p \in 1..n : s[p] = SP /\ ~inQuotes[p] /\ ~escaped[p]}
      cut == [k \in 1..Cardinality(cuts) |->
                CHOOSE p \in cuts : Cardinality({q \in cuts : q <= p}) = k]
  IN [k \in 1..(Cardinality(cuts) + 1) |->
        SubSeq(s, IF k = 1 THEN 1 ELSE cut[k - 1] + 1,
                  IF k = Cardinality(cuts) + 1 THEN n ELSE cut[k] - 1)]

RECURSIVE Flagged(_)
\* the words read as flags: a flag takes the word right after it as its
\* value when that word opens with a double quote; empty words are dropped
Flagged(ws) ==
  IF ws = <<>> THEN <<>>
  ELSE IF Head(ws) = <<>> THEN Flagged(Tail(ws))
  ELSE IF Len(ws) >= 2 /\ ws[2] # <<>> /\ ws[2][1] = DQ
    THEN <<[flag |-> ws[1], valued |-> TRUE, value |-> ws[2]]>>
           \o Flagged(Tail(Tail(ws)))
  ELSE <<[flag |-> ws[1], valued |-> FALSE, value |-> <<>>]>> \o Flagged(Tail(ws))

\* the words of the command line of call c that follow its command and its
\* positional arguments
OptionWords(c) ==
  LET ws == Words(c.execString)
  IN SubSeq(ws, Len(Words(c.command)) + Len(c.args) + 1, Len(ws))

RECURSIVE Elements(_)
\* the elements of an options mapping in order: the value of an entry, or
\* each element of the sequence that is its value
Elements(m) ==
  IF m = <<>> THEN <<>>
  ELSE LET e == Head(m)
           vs == IF e.value.t = "arr" THEN e.value.elems ELSE <<e.value>>
       IN [j \in 1..Len(vs) |-> Opt(e.key, vs[j])] \o Elements(Tail(m))

\* the text between double quotes that stands for value v
Quoted(v) == <<DQ>> \o EscapeText(ToText(v)) \o <<DQ>>

\* the flag of key k already in kebab case
FlagOf(k) == (IF Len(k) = 1 THEN <<"-">> ELSE <<"-", "-">>) \o k

libraryPathFlag ==
  <<"-", "-", "l", "i", "b", "r", "a", "r", "y", "-", "p", "a", "t", "h">>

IsLibraryFlag(p) == p.flag = libraryPathFlag

\* the --library-path flags of the command line of call c, with their values
LibraryFlags(c) == SelectSeq(Flagged(OptionWords(c)), IsLibraryFlag)

\* the flags, with their values, that render the elements es
FlagsFor(es) ==
  [j \in 1..Len(es) |->
     [flag |-> FlagOf(camelToKebab(es[j].key)),
      valued |-> es[j].value.t # "null",
      value |-> IF es[j].value.t # "null" THEN Quoted(es[j].value) ELSE <<>>]]

\* the libraryPath entry the caller gave, as a mapping of that one entry
GivenLibraryPath(c) == SelectSeq(c.given, LAMBDA e : e.key = libraryPath)

IsRun(c) == c.kind = "run"

(* ------------------------------- claims -------------------------------- *)

\* C2 as stated: a calibredb command run with a non-empty library path and
\* no libraryPath option has --library-path with the configured path; with a
\* libraryPath option given there is exactly one --library-path flag and its
\* value is the one given; no flag is injected for another command.
C2_ExactlyOneFlag ==
  \A i \in Calls : IsRun(calls[i]) =>
    LET c == calls[i]
        given == GivenLibraryPath(c)
        flags == LibraryFlags(c)
    IN /\ (StartsWith(c.command, calibredb) /\ library # <<>> /\ given = <<>>)
            => \E j \in 1..Len(flags) :
                 flags[j].valued /\ flags[j].value = Quoted(Str(library))
       /\ given # <<>>
            => /\ Len(flags) = 1
               /\ flags = FlagsFor(Elements(given))
       /\ (~StartsWith(c.command, calibredb) /\ given = <<>>) => flags = <<>>

\* C2 amended: as C2, but with a libraryPath option given the command line
\* has one --library-path flag per element of the value given (one for a
\* string or null), with the values given and not the configured path.
C2_FlagPerGivenElement ==
  \A i \in Calls : IsRun(calls[i]) =>
    LET c == calls[i]
        given == GivenLibraryPath(c)
        flags == LibraryFlags(c)
    IN /\ (StartsWith(c.command, calibredb) /\ library # <<>> /\ given = <<>>)
            => \E j \in 1..Len(flags) :
                 flags[j].valued /\ flags[j].value = Quoted(Str(library))
       /\ given # <<>> => flags = FlagsFor(Elements(given))
       /\ (~StartsWith(c.command, calibredb) /\ given = <<>>) => flags = <<>>

\* a calibredb command run with a library path configured and another
\* libraryPath given as a string
C2_Witness ==
  /\ IsRun(calls[1])
  /\ StartsWith(calls[1].command, calibredb)
  /\ library # <<>>
  /\ \E j \in 1..Len(calls[1].given) :
       /\ calls[1].given[j].key = libraryPath
       /\ calls[1].given[j].value = Str(<<"a", DQ>>)

\* C3 as stated: with an empty library path and no libraryPath option, the
\* command line built by run has no --library-path flag, for every command.
C3_NoFlagWhenLibraryEmpty ==
  \A i \in Calls :
    (IsRun(calls[i]) /\ library = <<>> /\ GivenLibraryPath(calls[i]) = <<>>)
      => LibraryFlags(calls[i]) = <<>>

\* C4 as stated: the command line is the command, one quoted escaped token
\* per argument in order, then one token per option element in insertion
\* order (none for an empty sequence), adjacent tokens one space apart, with
\* no leading, trailing or doubled space.
C4_SingleSpaces ==
  \A i \in Calls : IsRun(calls[i]) =>
    LET c == calls[i]
        es == Elements(c.options)
    IN /\ (/\ c.command = ebookConvertCmd
           /\ c.args = <<Str(bookEpub), Str(bookMobi)>>
           /\ c.given = <<>>)
            => c.execString =
                 ebookConvertCmd \o <<SP, DQ>> \o bookEpub \o <<DQ, SP, DQ>>
                   \o bookMobi \o <<DQ>>
       /\ c.execString =
         Join(<<c.command>>
                \o [j \in 1..Len(c.args) |-> Quoted(c.args[j])]
                \o [j \in 1..Len(es) |->
                      FlagOf(camelToKebab(es[j].key))
                        \o (IF es[j].value.t # "null"
                            THEN <<SP>> \o Quoted(es[j].value) ELSE <<>>)],
              <<SP>>)

Settled(promise) == promise.state \in {"resolved", "rejected"}

\* the spawn events of call i
SpawnsOf(i) == SelectSeq(hostLog, LAMBDA e : e.ev = "spawn" /\ e.id = i)

C1_Outcome ==
  \A i \in Calls :
    LET c == calls[i]
        r == c.report
    IN /\ c.proc = "running" => c.promise.state = "pending"
       /\ c.proc = "exited" =>
            /\ r.err # NoError
                 => c.promise = [state |-> "rejected", value |-> r.err]
            /\ (r.err = NoError /\ r.stderr # <<>>)
                 => c.promise = [state |-> "rejected", value |-> Text(r.stderr)]
            /\ (r.err = NoError /\ r.stderr = <<>>)
                 => c.promise = [state |-> "resolved", value |-> Text(r.stdout)]
            /\ c.promise.state = "resolved"
                 => (r.err = NoError /\ r.stderr = <<>>)

C1_Once ==
  \A i \in Calls : Settled(calls[i].promise) => calls'[i].promise = calls[i].promise

\* C1: the promise of exec is pending while the process runs; once the host
\* has reported (err, stdout, stderr) it is rejected with err when err is
\* present, whatever stderr holds, rejected with the text of stderr when err
\* is absent and stderr is not empty, and resolved with stdout only when err
\* is absent and stderr is empty; once settled it never changes.
C1_SettlesOnceByReport == [](C1_Outcome) /\ [][C1_Once]_vars

\* the host has reported an error together with standard error output, and
\* the promise is rejected with the error
C1_Witness ==
  \E i \in Calls :
    /\ calls[i].proc = "exited"
    /\ calls[i].report.err = HostError
    /\ calls[i].report.stderr = <<"w">>
    /\ calls[i].promise = [state |-> "rejected", value |-> HostError]

xEpubMobi == <<"x", ".", "e", "p", "u", "b", ".", "m", "o", "b", "i">>

\* C7: ebookConvert(input, format) runs ebook-convert once with the
\* arguments input and input.format; when that run resolves, ebookConvert
\* resolves with input.format (x.epub.mobi for x.epub and mobi), whatever the
\* run resolved with; when it rejects, ebookConvert rejects with the same
\* value and does not resolve.
C7_EbookConvert ==
  \A i \in Calls : calls[i].kind = "ebookConvert" =>
    LET c == calls[i]
    IN /\ c.command = ebookConvertCmd
       /\ c.args = <<Str(c.input), Str(c.input \o <<".">> \o c.format)>>
       /\ Len(SpawnsOf(i)) = 1
       /\ Words(SpawnsOf(i)[1].text)
            = <<ebookConvertCmd, Quoted(c.args[1]), Quoted(c.args[2])>>
       /\ Settled(c.outer) => Settled(c.promise)
       /\ (Settled(c.outer) /\ c.promise.state = "resolved")
            => /\ c.outer = [state |-> "resolved",
                             value |-> Text(c.input \o <<".">> \o c.format)]
               /\ (c.input = xEpub /\ c.format = mobi)
                    => c.outer.value = Text(xEpubMobi)
       /\ (Settled(c.outer) /\ c.promise.state = "rejected")
            => c.outer = c.promise

\* the run of an ebookConvert call resolved with the output o of the
\* process, and ebookConvert has resolved
C7_Witness ==
  \E i \in Calls :
    /\ calls[i].kind = "ebookConvert"
    /\ calls[i].promise = [state |-> "resolved", value |-> Text(<<"o">>)]
    /\ calls[i].outer.state = "resolved"

\* C8 as stated: with logging on, every spawn, whether exec was called
\* directly or through run or ebookConvert, comes right after one log line
\* holding its command string, and there are no other log lines; with
\* logging off nothing is logged.
C8_EverySpawnLogged ==
  /\ log =>
       /\ \A p \in 1..Len(hostLog) :
            hostLog[p].ev = "spawn"
              => /\ p > 1
                 /\ hostLog[p - 1].ev = "console"
                 /\ hostLog[p - 1].text = LogPrefix \o <<SP>> \o hostLog[p].text
       /\ \A p \in 1..Len(hostLog) :
            hostLog[p].ev = "console"
              => /\ p < Len(hostLog)
                 /\ hostLog[p + 1].ev = "spawn"
  /\ ~log => \A p \in 1..Len(hostLog) : hostLog[p].ev # "console"

C10_Isolated ==
  \A i \in Calls : calls[i].kind # "none" =>
    LET c == calls[i]
    IN /\ Len(SpawnsOf(i)) = 1
       /\ SpawnsOf(i)[1].text = c.execString
       /\ c.kind = "exec" => c.execString = c.command
       /\ c.kind # "exec" =>
            /\ SubSeq(Words(c.execString), 1, Len(Words(c.command)) + Len(c.args))
                 = Words(c.command) \o [j \in 1..Len(c.args) |-> Quoted(c.args[j])]
            /\ Flagged(OptionWords(c)) = FlagsFor(Elements(c.options))
       /\ Settled(c.promise) <=> c.proc = "exited"
       /\ Settled(c.promise) =>
            c.promise.value \in {c.report.err, Text(c.report.stdout), Text(c.report.stderr)}
       /\ \A k \in 1..Len(execOptions) :
            HasKey(SpawnsOf(i)[1].options, execOptions[k].key)

\* C10: with any number of calls in flight and their processes ending in
\* any order, each call has one spawn of its own, with the command line of
\* its own command, arguments and options; its promise settles when its own
\* process has ended, with a value its own process reported; and the
\* configuration of the instance never changes, also when a call gives
\* execution options of its own.
C10_CallsDoNotInterfere == [](C10_Isolated) /\ [][config' = config]_vars

\* two calls were in flight together, the first an exec call with execution
\* options of its own, and the second has ended first
C10_Witness ==
  /\ calls[1].kind = "exec"
  /\ calls[1].proc = "running"
  /\ calls[2].proc = "exited"
  /\ \E n \in 1..Len(hostLog[1].options) : hostLog[1].options[n].key = "maxBuffer"
                                           /\ hostLog[1].options[n].value = 1

(* ------------------------ claims on pairs of calls --------------------- *)

BothRun == IsRun(calls[1]) /\ IsRun(calls[2])

====
